---- MODULE Spec2Model ----
(***************************************************************************)
(* Model of packages/wakamex/customs/openrouter/openrouter.py:             *)
(*   with_retries.wrapper  - retry loop with exponential backoff + jitter  *)
(*   _get_model_response   - the wrapped model call                        *)
(*   run                   - the entry point returning a 4-tuple           *)
(*                                                                         *)
(* Durations (initial_delay, max_delay, delay) are held in milliseconds    *)
(* and factors (retry_multiplier, the two jitter draws) in thousandths, so *)
(* 1.0 s is 1000 and a multiplier of 1.5 is 1500.  A product is divided by *)
(* 1000 and truncated, the fixed-point counterpart of the float product.   *)
(* Python's None is the token None; no string of the input sets equals it. *)
(***************************************************************************)
EXTENDS Integers, Sequences, FiniteSets, TLC

VARIABLES
    pc,               \* "idle" | "loop" | "sleep" | "wrapper_done" | "done"
    entry,            \* who called the wrapper: "none" | "run" | "direct"
    rkwargs,          \* run's **kwargs
    fargs,            \* wrapper's *args, handed to func unchanged
    fkwargs,          \* wrapper's **kwargs after the four pops
    wkwargs,          \* wrapper's **kwargs as its caller passed them
    again,            \* TRUE once an earlier invocation has come to its end
    fcalls,           \* the (args, kwargs) func received, one per invocation
    request,          \* keyword arguments of the latest create call, line 132
    events,           \* the invocations of func and of time.sleep, in order
    max_retries,      \* wrapper local, line 44
    initial_delay,    \* wrapper local, line 45
    retry_multiplier, \* wrapper local, line 46
    max_delay,        \* wrapper local, line 47
    retries,          \* wrapper local, line 49
    delay,            \* wrapper local, line 50
    exc,              \* the exception bound by the except clause, line 60
    prior,            \* delay as read by line 70 at the latest retry
    clamped,          \* delay as written by line 70 at the latest retry
    slept,            \* sequence of the arguments of time.sleep, line 74
    attempts,         \* number of invocations of func, line 54
    history,          \* kind of each invocation's outcome, in order
    last,             \* what the completion client did at the latest attempt
    wout,             \* outcome of the wrapper: pending, return or raise
    rout              \* outcome of run: pending, return or raise

vars == <<pc, entry, rkwargs, fargs, fkwargs, wkwargs, again, fcalls, request,
          events, max_retries, initial_delay,
          retry_multiplier, max_delay, retries, delay, exc, prior, clamped,
          slept, attempts, history, last, wout, rout>>

-----------------------------------------------------------------------------
(* Module constants, lines 32-37 *)

DEFAULT_MAX_RETRIES == 3
DEFAULT_INITIAL_DELAY == 1000
DEFAULT_RETRY_MULTIPLIER == 1500
DEFAULT_MAX_DELAY == 60000
DEFAULT_MODEL == "nvidia/llama-3.1-nemotron-70b-instruct:free"

None == "None"

NO_PROMPT_MSG == "No prompt has been specified."
NO_KEY_MSG == "No OpenRouter API key has been specified."
ERROR_PREFIX == "Error while calling OpenRouter API: "

-----------------------------------------------------------------------------
(* Bounds of the explored inputs *)

\* max_retries is drawn from -NegRetries .. MaxRetries (and the default)
MaxRetries == 2
NegRetries == 2

RetriesValues == (0 - NegRetries)..MaxRetries
InitialDelayValues == {500, 2000}
MultiplierValues == {2000}
MaxDelayValues == {2000}

\* random.uniform(0.9, 1.1), in thousandths: both ends and the middle
MultiplierJitter == {900, 1000, 1100}
\* random.uniform(0, 0.1 * delay) as a fraction of its upper end, in thousandths
AdditiveJitter == {0, 1000}

PromptValues == {None, "", "hi"}
ApiKeysValues == {<<>>, [openrouter |-> ""], [openrouter |-> "k"], [other |-> "k"]}
ModelValues == {"meta-llama/llama-3.3-70b-instruct"}

-----------------------------------------------------------------------------
(* Python helpers *)

Min(a, b) == IF a <= b THEN a ELSE b

\* x * f for a factor f in thousandths
MulMilli(x, f) == (x * f) \div 1000

Restrict(f, S) == [k \in S |-> f[k]]

\* dict.get(key, default)
DictGet(d, key, default) == IF key \in DOMAIN d THEN d[key] ELSE default

\* bool(v) for a string or None
Truthy(v) == v # None /\ v # ""

-----------------------------------------------------------------------------
(* Exception classes: the ones the source names, and their bases *)

Bases(cls) ==
    CASE cls = "HTTPError" -> {"RequestException"}
      [] cls = "ConnectionError" -> {"RequestException"}
      [] cls = "Timeout" -> {"RequestException"}
      [] cls = "JSONDecodeError" -> {"ValueError"}
      [] OTHER -> {}

IsInstance(cls, classes) == cls \in classes \/ Bases(cls) \cap classes # {}

\* The except clause of the wrapper, lines 55-60
WrapperCaught ==
    {"RequestException", "HTTPError", "ConnectionError", "Timeout",
     "ValueError", "JSONDecodeError"}

\* The except clause of run, line 192
RunCaught == {"RequestException", "JSONDecodeError"}

\* Variant: an except clause that catches every error
IsRetryable_Everything(cls) == TRUE

IsRetryable(cls) == IsInstance(cls, WrapperCaught)

RunCatches(cls) == IsInstance(cls, RunCaught)

NoExc == [cls |-> "", msg |-> "", at |-> 0]

Exc(cls, msg, at) == [cls |-> cls, msg |-> msg, at |-> at]

Pending == [kind |-> "pending", val |-> None, exc |-> NoExc]
Return(v) == [kind |-> "return", val |-> v, exc |-> NoExc]
Raise(e) == [kind |-> "raise", val |-> None, exc |-> e]

-----------------------------------------------------------------------------
(* The completion client, client.chat.completions.create of line 132: it   *)
(* raises an error of some class, or returns a response whose choices are  *)
(* listed by their message content.                                        *)

RaisedClasses ==
    {"RequestException", "HTTPError", "ConnectionError", "Timeout",
     "ValueError", "JSONDecodeError", "APIError"}

ResponseChoices == {<<>>, <<None>>, <<"">>, <<"4">>, <<"4", "5">>}

ClientRaises(cls) == [kind |-> "raise", cls |-> cls, choices |-> <<>>]
ClientReturns(ch) == [kind |-> "response", cls |-> "", choices |-> ch]
NoCall == [kind |-> "none", cls |-> "", choices |-> <<>>]

ClientOutcomes ==
    {ClientRaises(c) : c \in RaisedClasses} \cup
    {ClientReturns(ch) : ch \in ResponseChoices}

\* str(exc) of an error of the client
MsgOf(cls) == cls \o " from client"

\* Variant: the content of the last choice instead of the first
FuncResult_LastChoice(o, n) ==
    IF o.kind = "raise" THEN Raise(Exc(o.cls, MsgOf(o.cls), n))
    ELSE IF Len(o.choices) = 0
        THEN Raise(Exc("IndexError", "list index out of range", n))
    ELSE IF o.choices[Len(o.choices)] = None
        THEN Raise(Exc("TypeError", "object of type 'NoneType' has no len()", n))
    ELSE Return(o.choices[Len(o.choices)])

\* _get_model_response, lines 132-144, on its n-th invocation: the error of
\* the client propagates; choices[0] of an empty list is an IndexError;
\* len(None), an argument of the logger.debug call of line 142, is a
\* TypeError; otherwise the content of the first choice is returned.
FuncResult(o, n) ==
    IF o.kind = "raise" THEN Raise(Exc(o.cls, MsgOf(o.cls), n))
    ELSE IF Len(o.choices) = 0
        THEN Raise(Exc("IndexError", "list index out of range", n))
    ELSE IF o.choices[1] = None
        THEN Raise(Exc("TypeError", "object of type 'NoneType' has no len()", n))
    ELSE Return(o.choices[1])

\* How an attempt ended, as the wrapper sees it
KindOf(r) ==
    IF r.kind = "return" THEN "ok"
    ELSE IF IsRetryable(r.exc.cls) THEN "retryable"
    ELSE "other"

-----------------------------------------------------------------------------
(* with_retries.wrapper, lines 43-74 *)

RetryKeys == {"max_retries", "initial_delay", "retry_multiplier", "max_delay"}

\* Variant: while retries < max_retries
LoopCond_Strict(r, m) == r < m

\* Variant: a do-while loop, the first attempt is made whatever max_retries is
LoopCond_AtLeastOnce(r, m) == r <= m \/ r = 0

\* while retries <= max_retries, line 52
LoopCond(r, m) == r <= m

\* Variant: one retry more before giving up
GiveUp_OffByOne(r, m) == r > m + 1

\* Variant: a delay that the jitter pushed over max_delay ends the retries
GiveUp_OnLongDelay(r, m) == r > m \/ delay > max_delay

\* if retries > max_retries, line 62
GiveUp(r, m) == r > m

\* Variant: multiplier jitter of 20% instead of 10%
JitteredMultiplier_Wide(mult, j1) == MulMilli(mult, 2 * j1 - 1000)

\* multiplier = retry_multiplier; multiplier *= random.uniform(0.9, 1.1)
JitteredMultiplier(mult, j1) == MulMilli(mult, j1)

\* Variant: the min with max_delay is left out
ClampedDelay_NoClamp(d, m, maxd) == MulMilli(d, m)

\* delay = min(delay * multiplier, max_delay), line 70
ClampedDelay(d, m, maxd) == Min(MulMilli(d, m), maxd)

\* Variant: additive jitter of up to 20% instead of 10%
WithAdditiveJitter_Double(d, j2) == d + MulMilli(MulMilli(d, 200), j2)

\* delay += random.uniform(0, 0.1 * delay), line 71: j2 is the draw as a
\* fraction of the upper end 0.1 * delay
WithAdditiveJitter(d, j2) == d + MulMilli(MulMilli(d, 100), j2)

\* Variant: max_delay is read but left in kwargs
PoppedKwargs_KeepsMaxDelay(kw) ==
    Restrict(kw, DOMAIN kw \ {"max_retries", "initial_delay", "retry_multiplier"})

\* kwargs after the four kwargs.pop of lines 44-47
PoppedKwargs(kw) == Restrict(kw, DOMAIN kw \ RetryKeys)

\* Variant: the error is logged and swallowed
GiveUpOutcome_Swallowed(e) == Return(None)

\* raise exc, line 64
GiveUpOutcome(e) == Raise(e)

\* lines 44-50: the four pops, retries = 0, delay = initial_delay
EnterWrapper_Persistent(args, kw) ==
    /\ max_retries' = DictGet(kw, "max_retries", DEFAULT_MAX_RETRIES)
    /\ initial_delay' = DictGet(kw, "initial_delay", DEFAULT_INITIAL_DELAY)
    /\ retry_multiplier' = DictGet(kw, "retry_multiplier", DEFAULT_RETRY_MULTIPLIER)
    /\ max_delay' = DictGet(kw, "max_delay", DEFAULT_MAX_DELAY)
    /\ fargs' = args
    /\ wkwargs' = kw
    /\ fkwargs' = PoppedKwargs(kw)
    /\ retries' = (IF again THEN retries ELSE 0)
    /\ delay' = (IF again THEN delay ELSE DictGet(kw, "initial_delay", DEFAULT_INITIAL_DELAY))
    /\ pc' = "loop"

EnterWrapper(args, kw) ==
    /\ max_retries' = DictGet(kw, "max_retries", DEFAULT_MAX_RETRIES)
    /\ initial_delay' = DictGet(kw, "initial_delay", DEFAULT_INITIAL_DELAY)
    /\ retry_multiplier' = DictGet(kw, "retry_multiplier", DEFAULT_RETRY_MULTIPLIER)
    /\ max_delay' = DictGet(kw, "max_delay", DEFAULT_MAX_DELAY)
    /\ fargs' = args
    /\ wkwargs' = kw
    /\ fkwargs' = PoppedKwargs(kw)
    /\ retries' = 0
    /\ delay' = DictGet(kw, "initial_delay", DEFAULT_INITIAL_DELAY)
    /\ pc' = "loop"

-----------------------------------------------------------------------------
(* run, lines 146-195 *)

RunKeys == {"prompt", "api_keys", "model"} \cup RetryKeys

\* prompt = kwargs.get("prompt"), line 167
RunPrompt(kw) == DictGet(kw, "prompt", None)

\* api_keys = kwargs.get("api_keys", {}); api_key = api_keys.get("openrouter")
RunApiKey(kw) == DictGet(DictGet(kw, "api_keys", <<>>), "openrouter", None)

\* Variant: the key is checked before the prompt
EarlyReturn_KeyFirst(kw) ==
    IF ~Truthy(RunApiKey(kw)) THEN NO_KEY_MSG
    ELSE IF ~Truthy(RunPrompt(kw)) THEN NO_PROMPT_MSG
    ELSE None

\* The two early returns of lines 168-174, in their order; None when the
\* inputs pass
EarlyReturn(kw) ==
    IF ~Truthy(RunPrompt(kw)) THEN NO_PROMPT_MSG
    ELSE IF ~Truthy(RunApiKey(kw)) THEN NO_KEY_MSG
    ELSE None

\* The keyword arguments of the call of lines 180-188
RunCallKwargs(kw) ==
    [model |-> DictGet(kw, "model", DEFAULT_MODEL),
     prompt |-> RunPrompt(kw),
     api_key |-> RunApiKey(kw),
     max_retries |-> DictGet(kw, "max_retries", DEFAULT_MAX_RETRIES),
     initial_delay |-> DictGet(kw, "initial_delay", DEFAULT_INITIAL_DELAY),
     retry_multiplier |-> DictGet(kw, "retry_multiplier", DEFAULT_RETRY_MULTIPLIER),
     max_delay |-> DictGet(kw, "max_delay", DEFAULT_MAX_DELAY)]

\* The tuple run returns around its first element
Tuple4(first) == <<first, None, None, None>>

\* f"Error while calling OpenRouter API: {str(exc)}", line 193
ErrorMsg(e) == ERROR_PREFIX \o e.msg

\* What run does with the outcome of the wrapper, lines 179-195
RunOutcome(w) ==
    IF w.kind = "return" THEN Return(Tuple4(w.val))
    ELSE IF RunCatches(w.exc.cls) THEN Return(Tuple4(ErrorMsg(w.exc)))
    ELSE Raise(w.exc)

-----------------------------------------------------------------------------
(* Inputs *)

RunKwargsValues ==
    {Restrict(r, S) :
        r \in [prompt : PromptValues, api_keys : ApiKeysValues, model : ModelValues,
               max_retries : RetriesValues, initial_delay : InitialDelayValues,
               retry_multiplier : MultiplierValues, max_delay : MaxDelayValues],
        S \in SUBSET RunKeys}

\* src/test_openrouter.py calls the decorated function itself: three
\* positional arguments, optional keywords
DirectArgs == <<"meta-llama/llama-3.3-70b-instruct", "What is 2+2?", "k">>

DirectKeys == {"max_retries", "initial_delay", "sort"}

DirectKwargsValues ==
    {Restrict(r, S) :
        r \in [max_retries : RetriesValues, initial_delay : InitialDelayValues,
               sort : {"price", "throughput"}],
        S \in SUBSET DirectKeys}

-----------------------------------------------------------------------------
(* _get_model_response, lines 79-140: its parameters and the request *)

DEFAULT_TEMPERATURE == "1.0"

\* The parameters of lines 80-95, in their order
ParamNames ==
    <<"model", "prompt", "api_key", "temperature", "frequency_penalty",
      "presence_penalty", "logprobs", "max_tokens", "response_format",
      "provider_order", "allow_fallbacks", "require_parameters",
      "data_collection", "ignore_providers", "quantizations", "sort">>

ParamDefault(name) == IF name = "temperature" THEN DEFAULT_TEMPERATURE ELSE None

ParamSet == {ParamNames[i] : i \in 1..Len(ParamNames)}

\* position of each parameter in the signature
ParamIndex ==
    [name \in ParamSet |-> CHOOSE j \in 1..Len(ParamNames) : ParamNames[j] = name]

\* Python's binding of (args, kwargs) to the parameters
BindParams(args, kw) ==
    [name \in ParamSet |->
        IF ParamIndex[name] <= Len(args) THEN args[ParamIndex[name]]
        ELSE IF name \in DOMAIN kw THEN kw[name]
        ELSE ParamDefault(name)]

\* Variant: if v (truthiness) instead of if v is not None
IsNotNone_Truthy(v) == v \notin {None, "False", "[]", "0", ""}

\* if v is not None, lines 118 and 127
IsNotNone(v) == v # None

\* dict((k, v) for (k, v) in pairs if v is not None)
DictOfPresent(pairs) ==
    LET idx == {i \in 1..Len(pairs) : IsNotNone(pairs[i][2])} IN
    [k \in {pairs[i][1] : i \in idx} |->
        pairs[CHOOSE i \in idx : pairs[i][1] = k][2]]

\* provider_prefs, lines 110-118
ProviderPrefs(p) ==
    DictOfPresent(<<
        <<"order", p["provider_order"]>>,
        <<"allow_fallbacks", p["allow_fallbacks"]>>,
        <<"require_parameters", p["require_parameters"]>>,
        <<"data_collection", p["data_collection"]>>,
        <<"ignore", p["ignore_providers"]>>,
        <<"quantizations", p["quantizations"]>>,
        <<"sort", p["sort"]>> >>)

\* params, lines 121-127
SamplingParams(p) ==
    DictOfPresent(<<
        <<"frequency_penalty", p["frequency_penalty"]>>,
        <<"presence_penalty", p["presence_penalty"]>>,
        <<"logprobs", p["logprobs"]>>,
        <<"max_tokens", p["max_tokens"]>>,
        <<"response_format", p["response_format"]>> >>)

\* extra_body, line 130: a dict is held in a 1-tuple, so that it can be told
\* from None; an empty dict is falsy
ExtraBody(prefs) == IF DOMAIN prefs # {} THEN <<[provider |-> prefs]>> ELSE None

\* The keyword arguments of client.chat.completions.create, lines 132-140
CreateKwargs(p) ==
    LET params == SamplingParams(p)
        fixed == [model |-> p["model"],
                  messages |-> <<[role |-> "user", content |-> p["prompt"]]>>,
                  temperature |-> p["temperature"],
                  extra_body |-> ExtraBody(ProviderPrefs(p))]
    IN [k \in DOMAIN fixed \cup DOMAIN params |->
            IF k \in DOMAIN fixed THEN fixed[k] ELSE params[k]]

\* The JSON body the client sends for those keyword arguments: every
\* keyword but extra_body under its name, a None as null, and the entries
\* of extra_body, when it is a dict, beside them
Payload(req) ==
    LET extra == IF req["extra_body"] = None THEN <<>> ELSE req["extra_body"][1]
        own == DOMAIN req \ {"extra_body"}
    IN [k \in own \cup DOMAIN extra |->
            IF k \in DOMAIN extra THEN <<extra[k]>> ELSE req[k]]

\* func(*args, **kwargs), line 54: func receives the wrapper's arguments
\* and builds its request from them
Invoke ==
    /\ fcalls' = Append(fcalls, [args |-> fargs, kwargs |-> fkwargs])
    /\ request' = CreateKwargs(BindParams(fargs, fkwargs))
    /\ events' = Append(events, "attempt")

-----------------------------------------------------------------------------
(* State machine *)

Init ==
    /\ pc = "idle"
    /\ entry = "none"
    /\ rkwargs = <<>>
    /\ fargs = <<>>
    /\ fkwargs = <<>>
    /\ wkwargs = <<>>
    /\ again = FALSE
    /\ fcalls = <<>>
    /\ request = <<>>
    /\ events = <<>>
    /\ max_retries = 0
    /\ initial_delay = 0
    /\ retry_multiplier = 0
    /\ max_delay = 0
    /\ retries = 0
    /\ delay = 0
    /\ exc = NoExc
    /\ prior = 0
    /\ clamped = 0
    /\ slept = <<>>
    /\ attempts = 0
    /\ history = <<>>
    /\ last = NoCall
    /\ wout = Pending
    /\ rout = Pending

wrapperLocals == <<max_retries, initial_delay, retry_multiplier, max_delay>>
callFrame == <<entry, rkwargs, fargs, fkwargs, wkwargs, again>>
effects == <<fcalls, request, events>>

\* run(**kw) with a missing prompt or key: lines 167-174.  The wrapper is not
\* called: there is no frame whose retries and delay could be read.
RunRejects(kw) ==
    /\ pc = "idle"
    /\ EarlyReturn(kw) # None
    /\ entry' = "run"
    /\ rkwargs' = kw
    /\ rout' = Return(Tuple4(EarlyReturn(kw)))
    /\ pc' = "done"
    /\ retries' = 0
    /\ delay' = 0
    /\ UNCHANGED <<fargs, fkwargs, wkwargs, again, effects, wrapperLocals, exc,
                   prior, clamped, slept, attempts, history, last, wout>>

\* run(**kw) with a prompt and a key: lines 167-188 and 44-50
RunCalls(kw) ==
    /\ pc = "idle"
    /\ EarlyReturn(kw) = None
    /\ entry' = "run"
    /\ rkwargs' = kw
    /\ EnterWrapper(<<>>, RunCallKwargs(kw))
    /\ UNCHANGED <<again, effects, exc, prior, clamped, slept, attempts, history,
                   last, wout, rout>>

\* _get_model_response(*DirectArgs, **kw): lines 44-50
DirectCalls(kw) ==
    /\ pc = "idle"
    /\ entry' = "direct"
    /\ EnterWrapper(DirectArgs, kw)
    /\ UNCHANGED <<rkwargs, again, effects, exc, prior, clamped, slept, attempts,
                   history, last, wout, rout>>

\* The while condition of line 52 is false: the wrapper falls off its end
LoopEnds ==
    /\ pc = "loop"
    /\ ~LoopCond(retries, max_retries)
    /\ wout' = Return(None)
    /\ pc' = "wrapper_done"
    /\ UNCHANGED <<callFrame, effects, wrapperLocals, retries, delay, exc, prior,
                   clamped, slept, attempts, history, last, rout>>

\* line 54: func returns
AttemptReturns(o) ==
    /\ pc = "loop"
    /\ LoopCond(retries, max_retries)
    /\ LET r == FuncResult(o, attempts + 1) IN
        /\ r.kind = "return"
        /\ wout' = r
        /\ history' = Append(history, KindOf(r))
    /\ attempts' = attempts + 1
    /\ Invoke
    /\ last' = o
    /\ pc' = "wrapper_done"
    /\ UNCHANGED <<callFrame, wrapperLocals, retries, delay, exc, prior, clamped,
                   slept, rout>>

\* line 54: func raises an error the except clause of lines 55-60 does not catch
AttemptRaisesOther(o) ==
    /\ pc = "loop"
    /\ LoopCond(retries, max_retries)
    /\ LET r == FuncResult(o, attempts + 1) IN
        /\ r.kind = "raise"
        /\ ~IsRetryable(r.exc.cls)
        /\ wout' = r
        /\ history' = Append(history, KindOf(r))
    /\ attempts' = attempts + 1
    /\ Invoke
    /\ last' = o
    /\ pc' = "wrapper_done"
    /\ UNCHANGED <<callFrame, wrapperLocals, retries, delay, exc, prior, clamped,
                   slept, rout>>

\* retries += 1, line 61
NextRetries_Stuck(r) == r

NextRetries(r) == r + 1

\* lines 54-64: func raises a caught error and the retries are used up
AttemptRaisesLast(o) ==
    /\ pc = "loop"
    /\ LoopCond(retries, max_retries)
    /\ LET r == FuncResult(o, attempts + 1) IN
        /\ r.kind = "raise"
        /\ IsRetryable(r.exc.cls)
        /\ GiveUp(NextRetries(retries), max_retries)
        /\ exc' = r.exc
        /\ wout' = GiveUpOutcome(r.exc)
        /\ history' = Append(history, KindOf(r))
    /\ attempts' = attempts + 1
    /\ Invoke
    /\ last' = o
    /\ retries' = NextRetries(retries)
    /\ pc' = "wrapper_done"
    /\ UNCHANGED <<callFrame, wrapperLocals, delay, prior, clamped, slept, rout>>

\* lines 54-73: func raises a caught error and the next delay is computed
AttemptRaisesRetry(o, j1, j2) ==
    /\ pc = "loop"
    /\ LoopCond(retries, max_retries)
    /\ LET r == FuncResult(o, attempts + 1)
           c == ClampedDelay(delay, JitteredMultiplier(retry_multiplier, j1), max_delay)
       IN
        /\ r.kind = "raise"
        /\ IsRetryable(r.exc.cls)
        /\ ~GiveUp(NextRetries(retries), max_retries)
        /\ exc' = r.exc
        /\ history' = Append(history, KindOf(r))
        /\ prior' = delay
        /\ clamped' = c
        /\ delay' = WithAdditiveJitter(c, j2)
    /\ attempts' = attempts + 1
    /\ Invoke
    /\ last' = o
    /\ retries' = NextRetries(retries)
    /\ pc' = "sleep"
    /\ UNCHANGED <<callFrame, wrapperLocals, slept, wout, rout>>

\* time.sleep(delay), line 74; the except clause ends and unbinds exc
Sleep ==
    /\ pc = "sleep"
    /\ slept' = Append(slept, delay)
    /\ events' = Append(events, "sleep")
    /\ UNCHANGED <<fcalls, request>>
    /\ exc' = NoExc
    /\ last' = NoCall
    /\ pc' = "loop"
    /\ UNCHANGED <<callFrame, wrapperLocals, retries, delay, prior, clamped,
                   attempts, history, wout, rout>>

\* lines 190-195: run returns the tuple, converts the error or lets it pass
RunFinishes ==
    /\ pc = "wrapper_done"
    /\ entry = "run"
    /\ rout' = RunOutcome(wout)
    /\ pc' = "done"
    /\ UNCHANGED <<callFrame, effects, wrapperLocals, retries, delay, exc, prior,
                   clamped, slept, attempts, history, last, wout>>

\* the direct caller receives the outcome of the wrapper
DirectFinishes ==
    /\ pc = "wrapper_done"
    /\ entry = "direct"
    /\ pc' = "done"
    /\ UNCHANGED <<callFrame, effects, wrapperLocals, retries, delay, exc, prior,
                   clamped, slept, attempts, history, last, wout, rout>>

\* the call is over and its frames are gone; the module holds no state.
\* retries and delay keep the values the finished call left: lines 49-50 are
\* what gives the next call its own.
Forget ==
    /\ pc = "done"
    /\ pc' = "idle"
    /\ entry' = "none"
    /\ rkwargs' = <<>>
    /\ fargs' = <<>>
    /\ fkwargs' = <<>>
    /\ wkwargs' = <<>>
    /\ again' = TRUE
    /\ fcalls' = <<>>
    /\ request' = <<>>
    /\ events' = <<>>
    /\ max_retries' = 0
    /\ initial_delay' = 0
    /\ retry_multiplier' = 0
    /\ max_delay' = 0
    /\ UNCHANGED <<retries, delay>>
    /\ exc' = NoExc
    /\ prior' = 0
    /\ clamped' = 0
    /\ slept' = <<>>
    /\ attempts' = 0
    /\ history' = <<>>
    /\ last' = NoCall
    /\ wout' = Pending
    /\ rout' = Pending

Next ==
    \/ pc = "idle" /\ \E kw \in RunKwargsValues : RunRejects(kw)
    \/ pc = "idle" /\ \E kw \in RunKwargsValues : RunCalls(kw)
    \/ pc = "idle" /\ \E kw \in DirectKwargsValues : DirectCalls(kw)
    \/ LoopEnds
    \/ pc = "loop" /\ \E o \in ClientOutcomes : AttemptReturns(o)
    \/ pc = "loop" /\ \E o \in ClientOutcomes : AttemptRaisesOther(o)
    \/ pc = "loop" /\ \E o \in ClientOutcomes : AttemptRaisesLast(o)
    \/ pc = "loop" /\ \E o \in ClientOutcomes, j1 \in MultiplierJitter,
                          j2 \in AdditiveJitter : AttemptRaisesRetry(o, j1, j2)
    \/ Sleep
    \/ RunFinishes
    \/ DirectFinishes
    \/ Forget

Spec == Init /\ [][Next]_vars

\* the wrapper is in its loop, lines 52-74
WrapperRunning == pc \in {"loop", "sleep"}

\* one step of the wrapper: the loop test, an attempt with its outcome, a sleep
WrapperStep ==
    \/ LoopEnds
    \/ \E o \in ClientOutcomes : AttemptReturns(o)
    \/ \E o \in ClientOutcomes : AttemptRaisesOther(o)
    \/ \E o \in ClientOutcomes : AttemptRaisesLast(o)
    \/ \E o \in ClientOutcomes, j1 \in MultiplierJitter, j2 \in AdditiveJitter :
            AttemptRaisesRetry(o, j1, j2)
    \/ Sleep

\* func and time.sleep are blocking calls that come back: a wrapper that can
\* take a step takes one
\* invocations of the decorated function that differ in max_retries only
WrapperKwargsValues ==
    {Restrict(r, S) : r \in [max_retries : RetriesValues],
                      S \in SUBSET {"max_retries"}}

NextWrapper ==
    \/ pc = "idle" /\ \E kw \in WrapperKwargsValues : DirectCalls(kw)
    \/ LoopEnds
    \/ pc = "loop" /\ \E o \in ClientOutcomes : AttemptReturns(o)
    \/ pc = "loop" /\ \E o \in ClientOutcomes : AttemptRaisesOther(o)
    \/ pc = "loop" /\ \E o \in ClientOutcomes : AttemptRaisesLast(o)
    \/ pc = "loop" /\ \E o \in ClientOutcomes, j1 \in MultiplierJitter,
                          j2 \in AdditiveJitter : AttemptRaisesRetry(o, j1, j2)
    \/ Sleep
    \/ DirectFinishes
    \/ Forget

SpecWrapperFair == Init /\ [][NextWrapper]_vars /\ WF_vars(WrapperStep)

-----------------------------------------------------------------------------
(* The model call on its own: the decorated function called as the tests   *)
(* of src/test_openrouter.py call it, with every combination of optional   *)
(* parameters, one attempt per call.  The values of the optional           *)
(* parameters are tokens: the code only tests them against None.           *)

ProviderKeys ==
    {"provider_order", "allow_fallbacks", "require_parameters", "data_collection",
     "ignore_providers", "quantizations", "sort"}

SamplingKeys ==
    {"frequency_penalty", "presence_penalty", "logprobs", "max_tokens",
     "response_format"}

OptionalKeys == {"temperature"} \cup SamplingKeys \cup ProviderKeys

ModelCallKwargsValues ==
    {Restrict(r, S \cup {"max_retries"}) :
        r \in [max_retries : {0},
               temperature : {None, "0.7"},
               frequency_penalty : {"0.5"},
               presence_penalty : {"0"},
               logprobs : {"False"},
               max_tokens : {"1000"},
               response_format : {"json_object"},
               provider_order : {"[]", "['Groq', 'Lambda']"},
               allow_fallbacks : {"False"},
               require_parameters : {"False"},
               data_collection : {"deny"},
               ignore_providers : {"['SambaNova']"},
               quantizations : {"['fp8']"},
               sort : {None, "price"}],
        S \in SUBSET OptionalKeys}

NextModelCall ==
    \/ pc = "idle" /\ \E kw \in ModelCallKwargsValues : DirectCalls(kw)
    \/ pc = "loop" /\ AttemptReturns(ClientReturns(<<"4">>))
    \/ pc = "loop" /\ AttemptRaisesOther(ClientRaises("APIError"))
    \/ pc = "loop" /\ AttemptRaisesLast(ClientRaises("Timeout"))

SpecModelCall == Init /\ [][NextModelCall]_vars

-----------------------------------------------------------------------------
(* Vocabulary of the properties *)

\* the wrapper has been entered by the call in progress
WrapperEntered ==
    pc \in {"loop", "sleep", "wrapper_done"} \/ (pc = "done" /\ wout.kind # "pending")

\* the wrapper has returned or raised
WrapperFinished ==
    pc = "wrapper_done" \/ (pc = "done" /\ wout.kind # "pending")

\* run has returned or raised
RunDone == pc = "done" /\ entry = "run"

\* a retry configuration as section 3 of the specification defines it
ValidRetries == max_retries >= 0

\* the next delay has been computed at least once by the call in progress
RetryComputed == pc = "sleep" \/ (WrapperEntered /\ Len(slept) > 0)

\* how many times the call in progress has computed the next delay
Computed == Len(slept) + (IF pc = "sleep" THEN 1 ELSE 0)

AllRetryable(h) == \A i \in 1..Len(h) : h[i] = "retryable"

\* retryable failures followed possibly by a success
RetryableThenOk(h) ==
    \A i \in 1..Len(h) : h[i] = "retryable" \/ (h[i] = "ok" /\ i = Len(h))

\* index of the first success of h; beyond every index when there is none
FirstOk(h) ==
    IF \E i \in 1..Len(h) : h[i] = "ok"
    THEN CHOOSE i \in 1..Len(h) : h[i] = "ok" /\ \A j \in 1..(i - 1) : h[j] # "ok"
    ELSE Len(h) + DEFAULT_MAX_RETRIES + MaxRetries + 2

\* the classes of the model that are outside the retryable set
OtherClasses == {"APIError", "IndexError", "TypeError"}

\* the prompt is missing or empty
PromptMissing ==
    \/ "prompt" \notin DOMAIN rkwargs
    \/ rkwargs["prompt"] \in {None, ""}

\* no key is found under "openrouter"
KeyMissing ==
    \/ "api_keys" \notin DOMAIN rkwargs
    \/ "openrouter" \notin DOMAIN rkwargs["api_keys"]
    \/ rkwargs["api_keys"]["openrouter"] \in {None, ""}

-----------------------------------------------------------------------------
(* C1: run never raises: whatever the outcome of the model call, run       *)
(* returns a 4-tuple whose first element is the model's text or an error   *)
(* message, and no exception escapes.  Stated for the retry                *)
(* configurations of section 3 (max_retries >= 0).                         *)
C1_RunNeverRaises ==
    (RunDone /\ (WrapperEntered => ValidRetries)) =>
        /\ rout.kind = "return"
        /\ Len(rout.val) = 4
        /\ \/ rout.val[1] \in {NO_PROMPT_MSG, NO_KEY_MSG}
           \/ wout.kind = "return" /\ rout.val[1] = wout.val
           \/ wout.kind = "raise" /\ rout.val[1] = ERROR_PREFIX \o wout.exc.msg

(* C2: when every attempt fails with a retryable error and max_retries =   *)
(* N >= 0, the operation is attempted N + 1 times and run returns the      *)
(* error message tuple instead of propagating the error.                   *)
C2_ExhaustionBecomesMessage ==
    (RunDone /\ WrapperEntered /\ ValidRetries /\ history # <<>>
        /\ AllRetryable(history)) =>
        /\ attempts = max_retries + 1
        /\ rout.kind = "return"
        /\ rout.val = <<ERROR_PREFIX \o wout.exc.msg, None, None, None>>

(* C3: for outcomes that are retryable failures followed possibly by a     *)
(* success, the wrapper invokes the operation min(index of the first       *)
(* success, max_retries + 1) times; it never exceeds max_retries + 1 and   *)
(* makes no attempt after a success.  Retry configurations are those of    *)
(* section 3 (max_retries >= 0).                                           *)
C3_AttemptCount ==
    (WrapperEntered /\ ValidRetries) =>
        /\ attempts <= max_retries + 1
        /\ \A i \in 1..Len(history) :
                history[i] = "ok" => (i = Len(history) /\ WrapperFinished)
        /\ (WrapperFinished /\ RetryableThenOk(history)) =>
                attempts = Min(FirstOk(history), max_retries + 1)

C3_Witness ==
    /\ WrapperFinished
    /\ max_retries = 2
    /\ history = <<"retryable", "ok">>
    /\ attempts = 2

(* C4: validation precedes any model call and is ordered: a missing or     *)
(* empty prompt gives the no-prompt tuple whatever api_keys is; otherwise  *)
(* a missing key gives the no-key tuple; in both cases there is no attempt *)
(* and no sleep.                                                           *)
C4_ValidationFirst ==
    (entry = "run" /\ (PromptMissing \/ KeyMissing)) =>
        /\ pc = "done"
        /\ rout.kind = "return"
        /\ rout.val = IF PromptMissing
                      THEN <<NO_PROMPT_MSG, None, None, None>>
                      ELSE <<NO_KEY_MSG, None, None, None>>
        /\ attempts = 0
        /\ slept = <<>>

C4_Witness ==
    /\ RunDone
    /\ DOMAIN rkwargs = {"prompt"}
    /\ rkwargs["prompt"] = ""
    /\ rout.val[1] = NO_PROMPT_MSG

(* C5: an error of a class outside the retryable set leaves the wrapper on *)
(* the attempt where it occurs: the wrapper raises that error, makes no    *)
(* further attempt, does not sleep after it and does not count it as a     *)
(* retry, whatever max_retries is and however many retryable failures      *)
(* came before.                                                            *)
C5_OtherErrorPropagates ==
    (WrapperEntered /\ last.kind # "none"
        /\ FuncResult(last, attempts).kind = "raise"
        /\ FuncResult(last, attempts).exc.cls \in OtherClasses) =>
        /\ WrapperFinished
        /\ wout.kind = "raise"
        /\ wout.exc = FuncResult(last, attempts).exc
        /\ retries = attempts - 1
        /\ Len(slept) = attempts - 1

C5_Witness ==
    /\ WrapperFinished
    /\ attempts = 3
    /\ max_retries = 3
    /\ history = <<"retryable", "retryable", "other">>
    /\ wout.kind = "raise"
    /\ wout.exc.cls = "APIError"

(* C6: with max_retries = 0 the wrapper attempts the operation exactly     *)
(* once and never sleeps, whether the attempt succeeds, fails with a       *)
(* retryable error (then raised) or fails with another error.              *)
C6_ZeroRetries ==
    (WrapperEntered /\ max_retries = 0) =>
        /\ slept = <<>>
        /\ pc # "sleep"
        /\ attempts <= 1
        /\ WrapperFinished =>
            /\ attempts = 1
            /\ history[1] # "ok" => (wout.kind = "raise" /\ wout.exc.at = 1)

C6_Witness ==
    /\ WrapperFinished
    /\ max_retries = 0
    /\ history = <<"retryable">>
    /\ wout.kind = "raise"

(* C7: every value run returns is a 4-tuple whose second, third and fourth  *)
(* elements are None; when the model call succeeds the first element is    *)
(* the content of the first completion choice, unchanged, and that content *)
(* is also what the decorated function hands to a direct caller.           *)
C7_TupleShape ==
    /\ (RunDone /\ rout.kind = "return") =>
            /\ Len(rout.val) = 4
            /\ rout.val[2] = None /\ rout.val[3] = None /\ rout.val[4] = None
    /\ (WrapperFinished /\ last.kind = "response" /\ Len(last.choices) > 0
            /\ last.choices[1] # None) =>
            /\ wout.kind = "return"
            /\ wout.val = last.choices[1]
            /\ RunDone => rout.val = <<last.choices[1], None, None, None>>

C7_Witness ==
    /\ RunDone
    /\ last.kind = "response"
    /\ last.choices = <<"4", "5">>
    /\ rout.val = <<"4", None, None, None>>

(* C8: every delay the wrapper sleeps for is at most max_delay x 1.21,     *)
(* for every configuration with initial_delay <= max_delay, every pair of  *)
(* jitter draws and every number of preceding retries.                     *)
C8_SleepBound ==
    (WrapperEntered /\ initial_delay <= max_delay) =>
        /\ \A i \in 1..Len(slept) : slept[i] * 100 <= max_delay * 121
        /\ pc = "sleep" => delay * 100 <= max_delay * 121

C8_Witness ==
    /\ WrapperEntered
    /\ initial_delay <= max_delay
    /\ Len(slept) = 3
    /\ slept[3] > max_delay

(* C9 as stated: at every retry the delay computed before the additive     *)
(* jitter is at least the prior delay x multiplier x 0.9, also at retries  *)
(* at which the delay has reached max_delay.                               *)
C9_Original ==
    RetryComputed =>
        clamped >= MulMilli(prior, MulMilli(retry_multiplier, 900))

(* C9 as amended: at every retry the delay computed before the additive    *)
(* jitter is at least min(prior delay x multiplier x 0.9, max_delay),      *)
(* where the prior delay is the delay carried from the previous retry      *)
(* (initial_delay at the first retry).                                     *)
C9_LowerBoundUpToClamp ==
    RetryComputed =>
        /\ prior = IF Computed = 1 THEN initial_delay ELSE slept[Computed - 1]
        /\ clamped >= Min(MulMilli(prior, MulMilli(retry_multiplier, 900)), max_delay)

C9_Witness ==
    /\ pc = "sleep"
    /\ retries = 2
    /\ clamped = max_delay
    /\ clamped < MulMilli(prior, MulMilli(retry_multiplier, 900))

(* C10: the delay the wrapper holds after computing the next delay, which  *)
(* is the value passed to sleep, never exceeds max_delay.                  *)
C10_SleepWithinMaxDelay ==
    WrapperEntered =>
        /\ \A i \in 1..Len(slept) : slept[i] <= max_delay
        /\ pc = "sleep" => delay <= max_delay

(* C10 as amended: the delay is clamped to max_delay before the additive   *)
(* jitter is added: the value the min computes never exceeds max_delay,    *)
(* and the value passed to sleep, which includes the additive jitter,      *)
(* never exceeds max_delay x 1.1.                                          *)
C10_ClampBeforeJitter ==
    RetryComputed =>
        /\ clamped <= max_delay
        /\ \A i \in 1..Len(slept) : slept[i] * 10 <= max_delay * 11
        /\ pc = "sleep" => delay * 10 <= max_delay * 11

C10_Witness ==
    /\ pc = "sleep"
    /\ clamped = max_delay
    /\ delay * 10 = max_delay * 11

-----------------------------------------------------------------------------
(* Properties of the request *)

\* the create call of line 132 has been made by the direct call in progress
RequestMade == entry = "direct" /\ attempts > 0

\* the value the caller gave a parameter; None when the caller gave none
Given(name) == IF name \in DOMAIN wkwargs THEN wkwargs[name] ELSE None

(* C11: with every optional parameter absent (null) the request holds only *)
(* model, messages and, if applicable, temperature, and no field of it is  *)
(* null: an absent field, temperature included, is omitted.                *)
C11_AbsentMeansOmitted ==
    (RequestMade /\ \A name \in SamplingKeys \cup ProviderKeys : Given(name) = None) =>
        /\ DOMAIN Payload(request) \subseteq {"model", "messages", "temperature"}
        /\ \A k \in DOMAIN Payload(request) : Payload(request)[k] # None

\* the key of the provider sub-object a provider-routing parameter goes under
ProviderField(name) ==
    CASE name = "provider_order" -> "order"
      [] name = "ignore_providers" -> "ignore"
      [] OTHER -> name

\* the provider-routing parameters the caller gave a non-null value
GivenProviderKeys == {name \in ProviderKeys : Given(name) # None}

(* C12: the provider sub-object is attached to the request if and only if  *)
(* at least one of the seven provider-routing preferences is non-null, and *)
(* it then holds exactly the non-null preferences under their keys with    *)
(* their values; a non-null falsy value (False, an empty list) counts.     *)
C12_ProviderAttachedIffGiven ==
    RequestMade =>
        /\ (request["extra_body"] # None) <=> (GivenProviderKeys # {})
        /\ ("provider" \in DOMAIN Payload(request)) <=> (GivenProviderKeys # {})
        /\ GivenProviderKeys # {} =>
            LET provider == request["extra_body"][1]["provider"] IN
            /\ DOMAIN request["extra_body"][1] = {"provider"}
            /\ DOMAIN provider = {ProviderField(name) : name \in GivenProviderKeys}
            /\ \A name \in GivenProviderKeys : provider[ProviderField(name)] = Given(name)

C12_Witness ==
    /\ RequestMade
    /\ GivenProviderKeys = {"provider_order", "allow_fallbacks"}
    /\ Given("provider_order") = "[]"
    /\ Given("allow_fallbacks") = "False"
    /\ request["extra_body"] = <<[provider |-> [order |-> "[]", allow_fallbacks |-> "False"]]>>

-----------------------------------------------------------------------------
(* Properties of the order of events *)

\* number of entries of the sequence q that equal x
Count(q, x) == Cardinality({i \in 1..Len(q) : q[i] = x})

(* C13: attempts and sleeps strictly alternate: no sleep before the first  *)
(* attempt, exactly one sleep between two consecutive attempts, no sleep   *)
(* after the last attempt however it ended; so the sleeps number the       *)
(* attempts minus one.  An execution without any attempt (max_retries < 0) *)
(* has no first or last attempt; it has no sleep either.                   *)
C13_AttemptsAndSleepsAlternate ==
    WrapperEntered =>
        /\ \A i \in 1..Len(events) :
                events[i] = IF i % 2 = 1 THEN "attempt" ELSE "sleep"
        /\ Count(events, "attempt") = attempts
        /\ Count(events, "sleep") = Len(slept)
        /\ pc = "sleep" => events[Len(events)] = "attempt"
        /\ (WrapperFinished /\ attempts > 0) =>
                /\ events[Len(events)] = "attempt"
                /\ Len(slept) = attempts - 1
        /\ attempts = 0 => events = <<>>

C13_Witness ==
    /\ WrapperFinished
    /\ events = <<"attempt", "sleep", "attempt", "sleep", "attempt">>
    /\ history = <<"retryable", "retryable", "other">>
    /\ Len(slept) = 2

(* C14: when the wrapper gives up after max_retries + 1 retryable          *)
(* failures, it raises the error of the final attempt, not an earlier      *)
(* one, and does not return a value.                                       *)
C14_LastErrorRaised ==
    (WrapperFinished /\ ValidRetries /\ history # <<>> /\ AllRetryable(history)) =>
        /\ attempts = max_retries + 1
        /\ wout.kind = "raise"
        /\ wout.exc.at = attempts
        /\ wout.exc = FuncResult(last, attempts).exc

C14_Witness ==
    /\ WrapperFinished
    /\ max_retries = 2
    /\ history = <<"retryable", "retryable", "retryable">>
    /\ wout.kind = "raise"
    /\ wout.exc = Exc("Timeout", MsgOf("Timeout"), 3)

(* C15: every invocation of the wrapper terminates when each attempt and   *)
(* each sleep does.  Measure is positive while the wrapper runs, every     *)
(* step of the wrapper lowers it, the wrapper is never stuck, and so every *)
(* invocation reaches its outcome.                                         *)
Remaining == IF retries > max_retries THEN 0 ELSE max_retries + 1 - retries

Measure ==
    CASE pc = "loop" -> 2 * Remaining + 1
      [] pc = "sleep" -> 2 * Remaining + 2
      [] OTHER -> 0

C15_WrapperTerminates ==
    /\ [][WrapperRunning => (Measure' < Measure /\ Measure' >= 0)]_vars
    /\ [](WrapperRunning => ENABLED WrapperStep)
    /\ (WrapperRunning ~> WrapperFinished)

C15_Witness ==
    /\ WrapperFinished
    /\ Measure = 0
    /\ max_retries = MaxRetries
    /\ attempts = MaxRetries + 1
    /\ Len(slept) = MaxRetries

(* C16: no retry state persists between invocations.  Whatever the        *)
(* earlier invocations did, an invocation starts with retries = 0 and      *)
(* delay = its own initial_delay, so that a later invocation (again) makes *)
(* up to max_retries + 1 attempts, all of them when every attempt fails    *)
(* with a retryable error, and computes its first delay from               *)
(* initial_delay.                                                          *)
WrapperStarts == pc = "idle" /\ pc' = "loop"

C16_FreshRetryState ==
    /\ [][WrapperStarts =>
            /\ retries' = 0
            /\ initial_delay' = DictGet(wkwargs', "initial_delay", DEFAULT_INITIAL_DELAY)
            /\ delay' = initial_delay']_vars
    /\ []((again /\ WrapperEntered /\ ValidRetries) =>
            /\ attempts <= max_retries + 1
            /\ attempts = retries + (IF history # <<>> /\ history[Len(history)] # "retryable"
                                     THEN 1 ELSE 0)
            /\ (WrapperFinished /\ AllRetryable(history)) => attempts = max_retries + 1
            /\ (RetryComputed /\ Computed = 1) => prior = initial_delay)

C16_Witness ==
    /\ again
    /\ pc = "sleep"
    /\ max_retries = MaxRetries
    /\ retries = 1
    /\ Computed = 1
    /\ initial_delay = 500
    /\ prior = 500

(* C17: the jitter never influences the control flow of the wrapper.  How  *)
(* far an invocation has come (the number of attempts, the number of       *)
(* sleeps, whether it has finished) and the value it returns or the error  *)
(* it raises are determined by max_retries and the outcomes of the         *)
(* attempts alone: the formula mentions no delay, no jitter draw,          *)
(* no initial_delay, multiplier or max_delay, and holds in every reachable *)
(* state, so two runs that agree on max_retries and on the outcomes agree  *)
(* on all of these whatever their draws and delay settings were.           *)
Decided(h, m) ==
    Len(h) > 0 /\ (h[Len(h)] # "retryable" \/ Len(h) = m + 1)

C17_JitterFreeControlFlow ==
    WrapperEntered =>
        LET n == Len(history) IN
        /\ attempts = n
        /\ \A i \in 1..(n - 1) : history[i] = "retryable"
        /\ n <= (IF max_retries < 0 THEN 0 ELSE max_retries + 1)
        /\ IF Decided(history, max_retries)
           THEN /\ WrapperFinished
                /\ Len(slept) = n - 1
                /\ wout = FuncResult(last, n)
           ELSE IF n = 0
           THEN /\ slept = <<>>
                /\ \/ pc = "loop"
                   \/ WrapperFinished /\ max_retries < 0 /\ wout = Return(None)
           ELSE \/ pc = "sleep" /\ Len(slept) = n - 1
                \/ pc = "loop" /\ Len(slept) = n

C17_Witness ==
    /\ WrapperFinished
    /\ history = <<"retryable", "retryable", "ok">>
    /\ Len(slept) = 2
    /\ slept[1] > max_delay
    /\ slept[2] < slept[1]
    /\ wout = Return("4")

(* C18: with a negative max_retries the wrapper never invokes the          *)
(* operation and never sleeps, and returns None without raising; run,      *)
(* given a prompt and a key, then returns (None, None, None, None).        *)
C18_NegativeRetriesDoNothing ==
    (WrapperEntered /\ max_retries < 0) =>
        /\ attempts = 0
        /\ fcalls = <<>>
        /\ events = <<>>
        /\ slept = <<>>
        /\ pc # "sleep"
        /\ WrapperFinished => wout = Return(None)
        /\ RunDone =>
            /\ ~PromptMissing
            /\ ~KeyMissing
            /\ rout = Return(<<None, None, None, None>>)

C18_Witness ==
    /\ RunDone
    /\ WrapperFinished
    /\ max_retries = 0 - NegRetries
    /\ attempts = 0
    /\ rout = Return(<<None, None, None, None>>)

(* C19: the wrapper removes max_retries, initial_delay, retry_multiplier   *)
(* and max_delay from the keyword arguments before the first attempt and   *)
(* calls the operation with the same remaining arguments on every attempt: *)
(* the operation never receives a retry setting, its arguments are those   *)
(* the wrapper was called with minus the four settings, and they do not    *)
(* change between attempts.                                                *)
C19_RetrySettingsRemoved ==
    WrapperEntered =>
        /\ Len(fcalls) = attempts
        /\ \A i \in 1..Len(fcalls) :
            /\ DOMAIN fcalls[i].kwargs \cap RetryKeys = {}
            /\ DOMAIN fcalls[i].kwargs = DOMAIN wkwargs \ RetryKeys
            /\ \A k \in DOMAIN fcalls[i].kwargs : fcalls[i].kwargs[k] = wkwargs[k]
            /\ fcalls[i].args = (IF entry = "direct" THEN DirectArgs ELSE <<>>)
            /\ fcalls[i] = fcalls[1]
        /\ entry = "run" =>
            /\ DOMAIN wkwargs = {"model", "prompt", "api_key"} \cup RetryKeys
            /\ \A i \in 1..Len(fcalls) :
                    DOMAIN fcalls[i].kwargs = {"model", "prompt", "api_key"}

C19_Witness ==
    /\ WrapperFinished
    /\ entry = "run"
    /\ Len(fcalls) = 3
    /\ RetryKeys \subseteq DOMAIN wkwargs
    /\ fcalls[3] = [args |-> <<>>,
                    kwargs |-> [model |-> DEFAULT_MODEL, prompt |-> "hi", api_key |-> "k"]]

====
